---------------------------- MODULE Spec2Model ----------------------------
(***************************************************************************)
(* Model of src/src/main.rs: the bit-level file reader and writer, the     *)
(* 7-bit word view of an image's pixels (ImageDataStream) and the          *)
(* header/body framing of write_stream and read_stream.                    *)
(*                                                                         *)
(* u8 values are naturals 0..255 with the bit operators computed by        *)
(* arithmetic; u64 values are 64-element bit vectors (index 0 is the least *)
(* significant bit), because a 63-bit header does not fit the model        *)
(* checker's integers.                                                     *)
(***************************************************************************)
EXTENDS Naturals, Sequences, FiniteSets

VARIABLES
    width,      \* BMP.width
    height,     \* BMP.height
    pixels,     \* BMP.pixels, row-major, pixels[k+1] is Vec index k
    carrier,    \* the pixels as BMP::read produced them (for frame conditions)
    input,      \* FileBitReader: [file, size, bit_position]
    output,     \* FileBitWriter: [wd, bit_position, byte]
    pc,         \* position in the running function
    i,          \* loop variable of the running loop
    bytes,      \* local `bytes` of read_stream / header argument (u64)
    count,      \* local `count` (saturated, see Saturate)
    rem,        \* local `rem`
    trace,      \* word accesses so far: <<"w"|"r", addr>>
    log         \* what the test driver wrote, and what it read back

vars == <<width, height, pixels, carrier, input, output, pc, i, bytes, count,
          rem, trace, log>>

----------------------------------------------------------------------------
(* Bounds of the model *)

\* images of 1..MaxDim by 1..MaxDim pixels
MaxDim == 5
\* payload files of 0..MaxPayload bytes
MaxPayload == 7
\* at most MaxGroups write_bit / write_bits calls on one bit writer
MaxGroups == 3

----------------------------------------------------------------------------
(* u8 arithmetic *)

RECURSIVE Pow2(_)
Pow2(n) == IF n = 0 THEN 1 ELSE 2 * Pow2(n - 1)

RECURSIVE And8(_, _)
And8(a, b) ==
    IF a = 0 \/ b = 0 THEN 0
    ELSE (a % 2) * (b % 2) + 2 * And8(a \div 2, b \div 2)

RECURSIVE Or8(_, _)
Or8(a, b) ==
    IF a = 0 THEN b
    ELSE IF b = 0 THEN a
    ELSE (IF a % 2 = 1 \/ b % 2 = 1 THEN 1 ELSE 0) + 2 * Or8(a \div 2, b \div 2)

\* !a on a u8
Not8(a) == 255 - a
\* a << k on a u8 (bits shifted past bit 7 are lost)
Shl8(a, k) == (a * Pow2(k)) % 256
\* a >> k
Shr8(a, k) == a \div Pow2(k)

----------------------------------------------------------------------------
(* u64 values as bit vectors *)

U64Bits == 0..63

\* a natural below 2^31 as a u64
U64(n) == [j \in U64Bits |-> IF j < 31 THEN (n \div Pow2(j)) % 2 ELSE 0]
Shr64(h, k) == [j \in U64Bits |-> IF j + k <= 63 THEN h[j + k] ELSE 0]
\* wrapping left shift
Shl64(h, k) == [j \in U64Bits |-> IF j >= k THEN h[j - k] ELSE 0]
Or64(a, b) == [j \in U64Bits |-> IF a[j] = 1 \/ b[j] = 1 THEN 1 ELSE 0]
\* `as u8`: the low eight bits
AsU8(h) ==
    h[0] + 2 * h[1] + 4 * h[2] + 8 * h[3] + 16 * h[4] + 32 * h[5]
    + 64 * h[6] + 128 * h[7]

----------------------------------------------------------------------------
(* Image: BMP::pixel / pixel_mut and ImageDataStream::pixel / pixel_mut *)

\* BMP::pixel: the Vec index of (x, y)
BmpIndex(x, y) == x + y * width

\* ImageDataStream::pixel: the (x, y) handed to the image for a word address
StreamCoord(addr) == <<addr % width, addr \div height>>

PixelIndex(addr) == BmpIndex(StreamCoord(addr)[1], StreamCoord(addr)[2])

\* the Vec access does not panic
InGrid(px, addr) == PixelIndex(addr) < Len(px)

----------------------------------------------------------------------------
(* ImageDataStream: word constants *)

R_BITS == 3
G_BITS == 2
B_BITS == 2

R_MASK == Pow2(R_BITS) - 1
G_MASK == Pow2(G_BITS) - 1
B_MASK == Pow2(B_BITS) - 1

B_POS == 0
G_POS == B_BITS
R_POS == G_BITS + B_BITS

WORD_SIZE == R_BITS + G_BITS + B_BITS
WORD_MASK == Pow2(WORD_SIZE) - 1

HEADER_SIZE == 63
HEADER_WORDS == HEADER_SIZE \div WORD_SIZE

\* faulty variant: the body starting on the last header word
DATA_START_Off == HEADER_WORDS - 1
DATA_START == HEADER_WORDS

----------------------------------------------------------------------------
(* ImageDataStream::read_word / write_word (on an in-grid address) *)

\* faulty variant: the channel bits ORed together without their shifts
read_word_NoShift(px, addr) ==
    LET pixel == px[PixelIndex(addr) + 1] IN
    Or8(Or8(And8(pixel.r, R_MASK), And8(pixel.g, G_MASK)),
        And8(pixel.b, B_MASK))

read_word(px, addr) ==
    LET pixel == px[PixelIndex(addr) + 1] IN
    Or8(Or8(Shl8(And8(pixel.r, R_MASK), R_POS),
            Shl8(And8(pixel.g, G_MASK), G_POS)),
        Shl8(And8(pixel.b, B_MASK), B_POS))

\* faulty variant: the high channel bits are not kept
write_word_Clobber(px, addr, value) ==
    [px EXCEPT ![PixelIndex(addr) + 1] =
        [r |-> And8(Shr8(value, R_POS), R_MASK),
         g |-> And8(Shr8(value, G_POS), G_MASK),
         b |-> And8(value, B_MASK)]]

write_word(px, addr, value) ==
    LET pixel == px[PixelIndex(addr) + 1] IN
    [px EXCEPT ![PixelIndex(addr) + 1] =
        [r |-> Or8(And8(pixel.r, Not8(R_MASK)),
                   And8(Shr8(value, R_POS), R_MASK)),
         g |-> Or8(And8(pixel.g, Not8(G_MASK)),
                   And8(Shr8(value, G_POS), G_MASK)),
         b |-> Or8(And8(pixel.b, Not8(B_MASK)), And8(value, B_MASK))]]

----------------------------------------------------------------------------
(* ImageDataStream::read_header / write_header *)

\* the value write_header stores in word i
HeaderWord(header, i_) == And8(AsU8(Shr64(header, i_ * WORD_SIZE)), WORD_MASK)

\* what read_header ORs into the header for word i
HeaderPart(word, i_) == Shl64(U64(word), i_ * WORD_SIZE)

\* write_header from iteration k on; panics at the first address off the grid
RECURSIVE write_header_from(_, _, _)
write_header_from(px, header, k) ==
    IF k = HEADER_WORDS THEN [ok |-> TRUE, px |-> px]
    ELSE IF ~InGrid(px, k) THEN [ok |-> FALSE, px |-> px]
    ELSE write_header_from(write_word(px, k, HeaderWord(header, k)),
                           header, k + 1)

write_header(px, header) == write_header_from(px, header, 0)

RECURSIVE read_header_from(_, _, _)
read_header_from(px, header, k) ==
    IF k = HEADER_WORDS THEN [ok |-> TRUE, header |-> header]
    ELSE IF ~InGrid(px, k) THEN [ok |-> FALSE, header |-> header]
    ELSE read_header_from(px, Or64(header, HeaderPart(read_word(px, k), k)),
                          k + 1)

read_header(px) == read_header_from(px, U64(0), 0)

----------------------------------------------------------------------------
(* FileBitReader *)

\* FileBitReader::open on a file holding the byte sequence `file`
OpenReader(file) == [file |-> file, size |-> Len(file), bit_position |-> 0]

\* faulty variant: bits taken most significant first
read_bit_Msb(rd) ==
    IF rd.bit_position \div 8 >= Len(rd.file)
    THEN [ok |-> FALSE, bit |-> 0, rd |-> rd]
    ELSE [ok  |-> TRUE,
          bit |-> And8(Shr8(rd.file[rd.bit_position \div 8 + 1],
                            7 - (rd.bit_position % 8)), 1),
          rd  |-> [rd EXCEPT !.bit_position = @ + 1]]

\* read_bit: the seek succeeds anywhere, read_u8 fails at or past the end of
\* the file, and then bit_position is left as it was
read_bit(rd) ==
    IF rd.bit_position \div 8 >= Len(rd.file)
    THEN [ok |-> FALSE, bit |-> 0, rd |-> rd]
    ELSE [ok  |-> TRUE,
          bit |-> And8(Shr8(rd.file[rd.bit_position \div 8 + 1],
                            rd.bit_position % 8), 1),
          rd  |-> [rd EXCEPT !.bit_position = @ + 1]]

\* faulty variant of read_bits: the bits placed from bit 7 down
RECURSIVE read_bits_rev_from(_, _, _, _)
read_bits_rev_from(rd, len, k, out) ==
    IF k = len THEN [ok |-> TRUE, out |-> out, rd |-> rd]
    ELSE LET b == read_bit(rd) IN
         IF ~b.ok THEN [ok |-> FALSE, out |-> out, rd |-> b.rd]
         ELSE read_bits_rev_from(b.rd, len, k + 1, Or8(out, Shl8(b.bit, 7 - k)))

read_bits_Rev(rd, len) == read_bits_rev_from(rd, len, 0, 0)

\* the loop of read_bits from iteration k on, `out` accumulated so far
RECURSIVE read_bits_from(_, _, _, _)
read_bits_from(rd, len, k, out) ==
    IF k = len THEN [ok |-> TRUE, out |-> out, rd |-> rd]
    ELSE LET b == read_bit(rd) IN
         IF ~b.ok THEN [ok |-> FALSE, out |-> out, rd |-> b.rd]
         ELSE read_bits_from(b.rd, len, k + 1, Or8(out, Shl8(b.bit, k)))

\* read_bits(len), 0 < len <= 8 (the assert)
read_bits(rd, len) == read_bits_from(rd, len, 0, 0)

----------------------------------------------------------------------------
(* FileBitWriter.  `wd` is what has been handed to the BufWriter, which is  *)
(* the content of the file once the writer is dropped; `byte` is <<>> for  *)
(* None and <<v>> for Some(v).                                             *)

OpenWriter == [wd |-> <<>>, bit_position |-> 0, byte |-> <<>>]

flush(wr) ==
    IF wr.byte # <<>>
    THEN [wr EXCEPT !.wd = Append(@, wr.byte[1]), !.byte = <<>>]
    ELSE wr

write_bit(wr, bit) ==
    LET w1 == [wr EXCEPT
                 !.byte = IF wr.byte # <<>>
                          THEN <<Or8(wr.byte[1],
                                     Shl8(bit, wr.bit_position % 8))>>
                          ELSE <<bit>>,
                 !.bit_position = @ + 1]
    IN IF w1.bit_position # 0 /\ w1.bit_position % 8 = 0
       THEN flush(w1)
       ELSE w1

\* the loop of write_bits from iteration k on
RECURSIVE write_bits_from(_, _, _, _)
write_bits_from(wr, bits, len, k) ==
    IF k = len THEN wr
    ELSE write_bits_from(write_bit(wr, And8(bits, 1)), Shr8(bits, 1), len,
                         k + 1)

\* write_bits(bits, len), 0 < len <= 8 (the assert)
write_bits(wr, bits, len) == write_bits_from(wr, bits, len, 0)

\* faulty variant: no flush on drop
drop_Forget(wr) == wr

\* Drop for FileBitWriter
drop(wr) == flush(wr)

----------------------------------------------------------------------------
(* The count/rem split of read_stream and write_stream on a u64 `bytes` *)

\* u64 values below 2^SatBits are converted to naturals; larger ones saturate
SatBits == 24

\* bytes * 8 does not fit 64 bits
MulOverflows(h) == h[61] = 1 \/ h[62] = 1 \/ h[63] = 1
\* bytes * 8, wrapped
Times8(h) == Shl64(h, 3)

IsSmall(h) == \A j \in SatBits..63 : h[j] = 0

RECURSIVE ToNatFrom(_, _)
ToNatFrom(h, j) ==
    IF j = SatBits THEN 0 ELSE h[j] + 2 * ToNatFrom(h, j + 1)

\* the value of h, or 2^SatBits when h is larger than that.  A loop bound
\* from a saturated value is a lower bound of the real one, and larger than
\* any word address an image of the model has: such a loop ends in the
\* panic of the first access off the grid either way.
Saturate(h) == IF IsSmall(h) THEN ToNatFrom(h, 0) ELSE Pow2(SatBits)

\* h % m, exactly, most significant bit first: the low n bits of h are
\* left and acc, which stays below m, is the remainder of the bits above
RECURSIVE Mod64From(_, _, _, _)
Mod64From(h, m, n, acc) ==
    IF n = 0 \/ acc >= m THEN acc
    ELSE Mod64From(h, m, n - 1, (2 * acc + h[n - 1]) % m)

Mod64(h, m) == Mod64From(h, m, 64, 0)

\* count = bits / WORD_SIZE and rem = bits % WORD_SIZE
CountOf(bits) == Saturate(bits) \div WORD_SIZE
RemOf(bits) == Mod64(bits, WORD_SIZE)

----------------------------------------------------------------------------
(* Inputs: carrier images and payload files *)

Fills == {"black", "white", "mixed"}

Fill(f, k) ==
    CASE f = "black" -> [r |-> 0, g |-> 0, b |-> 0]
      [] f = "white" -> [r |-> 255, g |-> 255, b |-> 255]
      [] OTHER -> [r |-> (171 + 37 * k) % 256,
                   g |-> (205 + 91 * k) % 256,
                   b |-> (90 + 53 * k) % 256]

\* what BMP::read leaves in `pixels` for a w by h image
Carriers(w, h) == {[k \in 1..(w * h) |-> Fill(f, k - 1)] : f \in Fills}

Payloads ==
    UNION {{[k \in 1..n |-> 0],
            [k \in 1..n |-> 255],
            [k \in 1..n |-> (165 + 59 * k) % 256]} : n \in 0..MaxPayload}

NoLog == <<>>

----------------------------------------------------------------------------
(* fn main: write_stream, then read_stream into a fresh writer *)

Init ==
    /\ width \in 1..MaxDim
    /\ height \in 1..MaxDim
    /\ pixels \in Carriers(width, height)
    /\ carrier = pixels
    /\ input \in {OpenReader(p) : p \in Payloads}
    /\ output = OpenWriter
    /\ pc = "main"
    /\ i = 0
    /\ bytes = U64(0)
    /\ count = 0
    /\ rem = 0
    /\ trace = <<>>
    /\ log = NoLog

\* a panic inside write_stream: `output` is not open yet
PanicInWrite ==
    /\ pc' = "panic"
    /\ UNCHANGED <<i, bytes, count, rem, trace, output>>

\* a panic inside read_stream: unwinding drops `output`
PanicInRead ==
    /\ pc' = "panic"
    /\ output' = drop(output)
    /\ UNCHANGED <<i, count, rem, trace, input, pixels>>

\* write_stream, lines 358-361
WriteStreamEnter ==
    /\ pc = "main"
    /\ bytes' = U64(input.size)
    /\ count' = CountOf(Times8(U64(input.size)))
    /\ rem' = RemOf(Times8(U64(input.size)))
    /\ i' = 0
    /\ pc' = "ws_header"
    /\ UNCHANGED <<width, height, pixels, carrier, input, output, trace, log>>

\* one iteration of write_header's loop
WriteHeaderStep ==
    /\ pc = "ws_header"
    /\ \/ /\ InGrid(pixels, i)
          /\ pixels' = write_word(pixels, i, HeaderWord(bytes, i))
          /\ trace' = Append(trace, <<"w", i>>)
          /\ IF i + 1 = HEADER_WORDS
             THEN i' = DATA_START /\ pc' = "ws_body"
             ELSE i' = i + 1 /\ pc' = "ws_header"
          /\ UNCHANGED <<bytes, count, rem, output>>
       \/ /\ ~InGrid(pixels, i)
          /\ pixels' = pixels
          /\ PanicInWrite
    /\ UNCHANGED <<width, height, carrier, input, log>>

\* one iteration of write_stream's loop over the full words
WriteBodyStep ==
    /\ pc = "ws_body"
    /\ i < DATA_START + count
    /\ LET got == read_bits(input, WORD_SIZE) IN
       /\ input' = got.rd
       /\ \/ /\ got.ok
             /\ InGrid(pixels, i)
             /\ pixels' = write_word(pixels, i, got.out)
             /\ trace' = Append(trace, <<"w", i>>)
             /\ i' = i + 1
             /\ UNCHANGED <<pc, bytes, count, rem, output>>
          \/ /\ ~(got.ok /\ InGrid(pixels, i))
             /\ pixels' = pixels
             /\ PanicInWrite
    /\ UNCHANGED <<width, height, carrier, log>>

\* the remainder branch of write_stream, and its return
WriteTail ==
    /\ pc = "ws_body"
    /\ i = DATA_START + count
    /\ \/ /\ rem = 0
          /\ pc' = "rs_enter"
          /\ UNCHANGED <<pixels, input, trace, i, bytes, count, rem, output>>
       \/ /\ rem # 0
          /\ LET got == read_bits(input, rem) IN
             /\ input' = got.rd
             /\ \/ /\ got.ok
                   /\ InGrid(pixels, DATA_START + count)
                   /\ pixels' = write_word(pixels, DATA_START + count, got.out)
                   /\ trace' = Append(trace, <<"w", DATA_START + count>>)
                   /\ pc' = "rs_enter"
                   /\ UNCHANGED <<i, bytes, count, rem, output>>
                \/ /\ ~(got.ok /\ InGrid(pixels, DATA_START + count))
                   /\ pixels' = pixels
                   /\ PanicInWrite
    /\ UNCHANGED <<width, height, carrier, log>>

\* FileBitWriter::open, and read_stream up to its first read_word
ReadStreamEnter ==
    /\ pc = "rs_enter"
    /\ output' = OpenWriter
    /\ bytes' = U64(0)
    /\ i' = 0
    /\ pc' = "rs_header"
    /\ UNCHANGED <<width, height, pixels, carrier, input, count, rem, trace,
                   log>>

\* one iteration of read_header's loop
ReadHeaderStep ==
    /\ pc = "rs_header"
    /\ \/ /\ InGrid(pixels, i)
          /\ bytes' = Or64(bytes, HeaderPart(read_word(pixels, i), i))
          /\ trace' = Append(trace, <<"r", i>>)
          /\ IF i + 1 = HEADER_WORDS
             THEN i' = DATA_START /\ pc' = "rs_split"
             ELSE i' = i + 1 /\ pc' = "rs_header"
          /\ UNCHANGED <<count, rem, output, input, pixels>>
       \/ /\ ~InGrid(pixels, i)
          /\ bytes' = bytes
          /\ PanicInRead
    /\ UNCHANGED <<width, height, carrier, log>>

\* read_stream, lines 342-344.  bytes * 8 overflows a u64 when the header
\* holds 2^61 or more: a build with overflow checks panics there, one
\* without them wraps.
ReadStreamSplit ==
    /\ pc = "rs_split"
    /\ \/ /\ count' = CountOf(Times8(bytes))
          /\ rem' = RemOf(Times8(bytes))
          /\ pc' = "rs_body"
          /\ UNCHANGED <<i, output, input, pixels, trace>>
       \/ /\ MulOverflows(bytes)
          /\ PanicInRead
    /\ UNCHANGED <<width, height, carrier, bytes, log>>

\* one iteration of read_stream's loop over the full words
ReadBodyStep ==
    /\ pc = "rs_body"
    /\ i < DATA_START + count
    /\ \/ /\ InGrid(pixels, i)
          /\ output' = write_bits(output, read_word(pixels, i), WORD_SIZE)
          /\ trace' = Append(trace, <<"r", i>>)
          /\ i' = i + 1
          /\ UNCHANGED <<pc, count, rem, input, pixels>>
       \/ /\ ~InGrid(pixels, i)
          /\ PanicInRead
    /\ UNCHANGED <<width, height, carrier, bytes, log>>

\* the remainder branch of read_stream, its return, and the end of main,
\* where `output` is dropped
ReadTail ==
    /\ pc = "rs_body"
    /\ i = DATA_START + count
    /\ \/ /\ rem = 0
          /\ output' = drop(output)
          /\ pc' = "done"
          /\ UNCHANGED <<i, count, rem, input, pixels, trace>>
       \/ /\ rem # 0
          /\ InGrid(pixels, DATA_START + count)
          /\ output' = drop(write_bits(output,
                                       read_word(pixels, DATA_START + count),
                                       rem))
          /\ trace' = Append(trace, <<"r", DATA_START + count>>)
          /\ pc' = "done"
          /\ UNCHANGED <<i, count, rem, input, pixels>>
       \/ /\ rem # 0
          /\ ~InGrid(pixels, DATA_START + count)
          /\ PanicInRead
    /\ UNCHANGED <<width, height, carrier, bytes, log>>

Next ==
    \/ WriteStreamEnter
    \/ WriteHeaderStep
    \/ WriteBodyStep
    \/ WriteTail
    \/ ReadStreamEnter
    \/ ReadHeaderStep
    \/ ReadStreamSplit
    \/ ReadBodyStep
    \/ ReadTail

Spec == Init /\ [][Next]_vars

----------------------------------------------------------------------------
(* Properties of write_stream and read_stream, checked under Spec *)

\* bit j of the payload file, bits numbered least significant first in a byte
PayloadBit(file, j) == (file[j \div 8 + 1] \div Pow2(j % 8)) % 2

\* bit j of a word
WordBit(word, j) == (word \div Pow2(j)) % 2

\* the carrier has room for the header and the payload
Fits == WORD_SIZE * width * height >= HEADER_SIZE + 8 * input.size

\* write_stream has returned
Embedded == pc = "rs_enter"

\* C1: round trip.  Whenever the carrier has room for the payload
\* (7*width*height >= 63 + 8*|P|), write_stream followed by read_stream and
\* the drop of the writer run to the end and leave the payload, byte for
\* byte, in the output file.
C1_RoundTrip ==
    Fits => /\ pc # "panic"
            /\ pc = "done" => output.wd = input.file

\* the same on square carriers only, where the address mapping is row-major
Square_RoundTrip ==
    (Fits /\ width = height) =>
        /\ pc # "panic"
        /\ pc = "done" => output.wd = input.file

\* C6: embedded layout.  After write_stream into a carrier with room for the
\* payload, read_header gives the payload length, word 9+k holds payload
\* bits 7k..7k+6 (payload bit 7k in word bit 0), and the low rem bits of the
\* word after the last full one hold the last rem payload bits.
C6_Layout ==
    (Embedded /\ Fits) =>
        /\ read_header(pixels).ok
        /\ read_header(pixels).header = U64(input.size)
        /\ \A k \in 0..(count - 1) :
              /\ InGrid(pixels, DATA_START + k)
              /\ \A j \in 0..(WORD_SIZE - 1) :
                    WordBit(read_word(pixels, DATA_START + k), j)
                        = PayloadBit(input.file, WORD_SIZE * k + j)
        /\ rem # 0 =>
              /\ InGrid(pixels, DATA_START + count)
              /\ \A j \in 0..(rem - 1) :
                    WordBit(read_word(pixels, DATA_START + count), j)
                        = PayloadBit(input.file, WORD_SIZE * count + j)

\* the documented scenario: a 4x4 all-black carrier and the payload 0xFF
C6_Scenario ==
    /\ Embedded
    /\ width = 4 /\ height = 4
    /\ \A k \in 1..Len(carrier) : carrier[k] = [r |-> 0, g |-> 0, b |-> 0]
    /\ input.file = <<255>>
    /\ read_header(pixels).header = U64(1)
    /\ read_word(pixels, 9) = 127
    /\ read_word(pixels, 10) % 2 = 1

\* the addresses of the accesses of one kind ("w" or "r") in a trace
AddrsOf(t, kind) == {t[m][2] : m \in {n \in 1..Len(t) : t[n][1] = kind}}

\* the accesses of one kind in a trace include all nine header words
HeaderDone(t, kind) == \A w \in 0..(HEADER_WORDS - 1) : w \in AddrsOf(t, kind)

HeaderWritten == HeaderDone(trace, "w")
HeaderRead == HeaderDone(trace, "r")

\* the access this step appends to the trace, if it appends one, is in
\* order after the earlier ones of its kind: a payload access (address 9 or
\* more) comes after all nine header accesses and at an address above every
\* earlier one, the first of them at 9; a header access comes before any
\* payload access and is the first to its address
AccessInOrder ==
    Len(trace') > Len(trace) =>
        LET kind  == trace'[Len(trace')][1]
            addr  == trace'[Len(trace')][2]
            prior == AddrsOf(trace, kind)
        IN  IF addr >= HEADER_WORDS
            THEN /\ HeaderDone(trace, kind)
                 /\ \A p \in prior : p < addr
                 /\ (\A p \in prior : p < HEADER_WORDS) => addr = 9
            ELSE \A p \in prior : p < HEADER_WORDS /\ p # addr

\* C7: framing order.  In write_stream the nine header words are written
\* before any payload word, payload words go to strictly increasing
\* addresses from 9 on and no header address is written again; in
\* read_stream the header is read in full before any payload word and the
\* payload words are read at strictly increasing addresses from 9 on; and a
\* stream whose header is written (read) never goes back to having none.
C7_FramingOrder ==
    [][/\ AccessInOrder
       /\ HeaderWritten => HeaderWritten'
       /\ HeaderRead => HeaderRead']_vars

C7_Witness ==
    /\ pc = "done"
    /\ HeaderWritten
    /\ HeaderRead
    /\ \E p \in AddrsOf(trace, "w") : p > HEADER_WORDS
    /\ \E p \in AddrsOf(trace, "r") : p > HEADER_WORDS

\* the bits of a word above its low n bits
HighBits(word, n) == word \div Pow2(n)

LastWord == DATA_START + count

\* C8 as stated: after write_stream of a payload whose bit count leaves a
\* remainder rem, the 7-rem high bits of the last payload word are those the
\* carrier pixel had before.
C8_HighBitsKept ==
    (Embedded /\ rem # 0) =>
        HighBits(read_word(pixels, LastWord), rem)
            = HighBits(read_word(carrier, LastWord), rem)

\* C8 amended: those bits are zero, whatever the carrier held (read_bits
\* returns zeros above the bits it read and write_word replaces all seven).
C8_HighBitsZero ==
    (Embedded /\ rem # 0) => HighBits(read_word(pixels, LastWord), rem) = 0

C8_Witness ==
    /\ Embedded
    /\ rem # 0
    /\ HighBits(read_word(carrier, LastWord), rem) # 0
    /\ read_word(pixels, LastWord) # 0

\* the Vec indices that the word addresses 0..8+ceil(8n/7) map to, for a
\* payload of n = input.size bytes
Targets ==
    LET bits == 8 * input.size
        last == 8 + bits \div 7 + (IF bits % 7 = 0 THEN 0 ELSE 1)
    IN  {PixelIndex(a) : a \in 0..last}

HighChannelBits(p) ==
    <<p.r \div Pow2(R_BITS), p.g \div Pow2(G_BITS), p.b \div Pow2(B_BITS)>>

FrameKept ==
    LET targets == Targets IN
    /\ Len(pixels) = width * height
    /\ Len(pixels) = Len(carrier)
    /\ \A k \in 1..Len(pixels) :
          /\ HighChannelBits(pixels[k]) = HighChannelBits(carrier[k])
          /\ (k - 1) \notin targets => pixels[k] = carrier[k]

\* C9: frame of embedding.  Throughout and after write_stream the image
\* keeps its width and height, every pixel keeps the high 5 bits of red and
\* the high 6 bits of green and blue, and a pixel that no word address in
\* 0..8+ceil(8n/7) maps to is unchanged.
C9_Frame ==
    /\ []FrameKept
    /\ [][width' = width /\ height' = height]_vars

C9_Witness ==
    LET targets == Targets IN
    /\ Embedded
    /\ input.size > 0
    /\ \E k \in 1..Len(pixels) : pixels[k] # carrier[k] /\ carrier[k].r > 7
    /\ \E k \in 1..Len(pixels) : (k - 1) \notin targets /\ carrier[k].b > 3

----------------------------------------------------------------------------
(* The word layer on its own: write_word(addr, read_word(addr)) on any     *)
(* address below width*height, and write_header(n) followed by             *)
(* read_header() for 63-bit values n.                                      *)

\* the u64 whose 7-bit word k (bits 7k..7k+6) is d[k+1]; bit 63 is clear
FromWords(d) ==
    [j \in U64Bits |->
        IF j < HEADER_SIZE THEN (d[j \div 7 + 1] \div Pow2(j % 7)) % 2 ELSE 0]

\* header values: the small ones, 2^63-1, one nonzero word in any place, and
\* nine different words
Headers ==
    {U64(n) : n \in 0..MaxPayload}
    \cup {FromWords([k \in 1..9 |-> 127])}
    \cup {FromWords([k \in 1..9 |-> 11 * k])}
    \cup {FromWords([k \in 1..9 |-> IF k = at THEN v ELSE 0]) :
              at \in 1..9, v \in {1, 85, 127}}

InitWord ==
    /\ width \in 1..MaxDim
    /\ height \in 1..MaxDim
    /\ pixels \in Carriers(width, height)
    /\ carrier = pixels
    /\ input = OpenReader(<<>>)
    /\ output = OpenWriter
    /\ pc = "word"
    /\ i = 0
    /\ bytes = U64(0)
    /\ count = 0
    /\ rem = 0
    /\ trace = <<>>
    /\ log = [op |-> "none"]

\* write_word(addr, read_word(addr)); read_word panics off the grid
RewriteWord ==
    /\ pc = "word"
    /\ \E addr \in 0..(width * height - 1) :
          \/ /\ InGrid(pixels, addr)
             /\ pixels' = write_word(pixels, addr, read_word(pixels, addr))
             /\ log' = [op |-> "rewrite", addr |-> addr, before |-> pixels]
             /\ pc' = "rewritten"
          \/ /\ ~InGrid(pixels, addr)
             /\ pixels' = pixels
             /\ log' = [op |-> "rewrite", addr |-> addr, before |-> pixels]
             /\ pc' = "panic"
    /\ UNCHANGED <<width, height, carrier, input, output, i, bytes, count,
                   rem, trace>>

\* write_header(n)
WriteHeader ==
    /\ pc = "word"
    /\ \E n \in Headers :
          LET res == write_header(pixels, n) IN
          /\ bytes' = n
          /\ pixels' = res.px
          /\ log' = [op |-> "write_header", before |-> pixels]
          /\ pc' = IF res.ok THEN "header_written" ELSE "panic"
    /\ UNCHANGED <<width, height, carrier, input, output, i, count, rem,
                   trace>>

\* read_header()
ReadHeader ==
    /\ pc = "header_written"
    /\ LET res == read_header(pixels) IN
       /\ log' = [op |-> "read_header", header |-> res.header]
       /\ pc' = IF res.ok THEN "header_read" ELSE "panic"
    /\ UNCHANGED <<width, height, pixels, carrier, input, output, i, bytes,
                   count, rem, trace>>

NextWord == RewriteWord \/ WriteHeader \/ ReadHeader

SpecWord == InitWord /\ [][NextWord]_vars

\* C2: header fidelity.  On an image that has the word addresses 0..8,
\* write_header(n) followed by read_header() returns n, and word i holds
\* bits 7i..7i+6 of n.
C2_HeaderFidelity ==
    width * height >= HEADER_WORDS =>
        /\ log.op \in {"write_header", "read_header"} => pc # "panic"
        /\ pc = "header_read" =>
              /\ log.header = bytes
              /\ \A w \in 0..8 : \A j \in 0..6 :
                    WordBit(read_word(pixels, w), j) = bytes[7 * w + j]

\* the same on square images only
Square_HeaderFidelity ==
    (width * height >= HEADER_WORDS /\ width = height) =>
        /\ log.op \in {"write_header", "read_header"} => pc # "panic"
        /\ pc = "header_read" =>
              /\ log.header = bytes
              /\ \A w \in 0..8 : \A j \in 0..6 :
                    WordBit(read_word(pixels, w), j) = bytes[7 * w + j]

\* C3: word packing is invertible.  write_word(addr, read_word(addr)) at an
\* address below width*height leaves every channel byte of the image as it
\* was before the call.
C3_RewriteKeepsPixel ==
    log.op = "rewrite" => pixels = log.before

C3_Witness ==
    /\ log.op = "rewrite"
    /\ pc = "rewritten"
    /\ log.addr > 0
    /\ LET p == pixels[PixelIndex(log.addr) + 1] IN
       /\ p.r % 8 \notin {0, 7} /\ p.r > 7
       /\ p.g % 4 \notin {0, 3} /\ p.g > 3
       /\ p.b % 4 \notin {0, 3} /\ p.b > 3

\* C10: the address mapping is in the grid and free of aliases.  For every
\* word address a below width*height the coordinates (a mod width,
\* a div height) that ImageDataStream::pixel hands to the image satisfy
\* x < width and y < height, and two different addresses below width*height
\* map to different pixels.
C10_AddressMapping ==
    \A a \in 0..(width * height - 1) :
        /\ StreamCoord(a)[1] < width
        /\ StreamCoord(a)[2] < height
        /\ \A b \in 0..(width * height - 1) :
              a # b => PixelIndex(a) # PixelIndex(b)

\* the same on square images only
Square_AddressMapping == width = height => C10_AddressMapping

----------------------------------------------------------------------------
(* The bit writer and the bit reader on their own: a sequence of write_bit *)
(* and write_bits calls, the drop of the writer, and the same groups read  *)
(* back from the file it produced.                                         *)

\* the values handed to write_bits for a group of len bits
GroupValues(len) == {166 % Pow2(len), 255}

InitBits ==
    /\ width = 1
    /\ height = 1
    /\ pixels = <<>>
    /\ carrier = <<>>
    /\ input = OpenReader(<<>>)
    /\ output = OpenWriter
    /\ pc = "writing"
    /\ i = 0
    /\ bytes = U64(0)
    /\ count = 0
    /\ rem = 0
    /\ trace = <<>>
    /\ log = [groups |-> <<>>, got |-> <<>>]

DoWriteBit ==
    /\ pc = "writing"
    /\ Len(log.groups) < MaxGroups
    /\ \E bit \in {0, 1} :
          /\ output' = write_bit(output, bit)
          /\ log' = [log EXCEPT !.groups =
                        Append(@, [op |-> "bit", len |-> 1, v |-> bit])]
    /\ UNCHANGED <<width, height, pixels, carrier, input, pc, i, bytes,
                   count, rem, trace>>

DoWriteBits ==
    /\ pc = "writing"
    /\ Len(log.groups) < MaxGroups
    /\ \E len \in 1..8 : \E v \in GroupValues(len) :
          /\ output' = write_bits(output, v, len)
          /\ log' = [log EXCEPT !.groups =
                        Append(@, [op |-> "bits", len |-> len, v |-> v])]
    /\ UNCHANGED <<width, height, pixels, carrier, input, pc, i, bytes,
                   count, rem, trace>>

\* the writer goes out of scope, and a reader is opened on its file
Finalize ==
    /\ pc = "writing"
    /\ output' = drop(output)
    /\ input' = OpenReader(drop(output).wd)
    /\ pc' = "reading"
    /\ UNCHANGED <<width, height, pixels, carrier, i, bytes, count, rem,
                   trace, log>>

\* the next group of a byte-aligned run is read back with the call that
\* wrote it
ReadBack ==
    /\ pc = "reading"
    /\ input.size * 8 = output.bit_position
    /\ Len(log.got) < Len(log.groups)
    /\ LET g == log.groups[Len(log.got) + 1] IN
       \/ /\ g.op = "bit"
          /\ LET res == read_bit(input) IN
             /\ input' = res.rd
             /\ log' = [log EXCEPT !.got =
                           Append(@, [ok |-> res.ok, v |-> res.bit])]
       \/ /\ g.op = "bits"
          /\ LET res == read_bits(input, g.len) IN
             /\ input' = res.rd
             /\ log' = [log EXCEPT !.got =
                           Append(@, [ok |-> res.ok, v |-> res.out])]
    /\ UNCHANGED <<width, height, pixels, carrier, output, pc, i, bytes,
                   count, rem, trace>>

NextBits == DoWriteBit \/ DoWriteBits \/ Finalize \/ ReadBack

SpecBits == InitBits /\ [][NextBits]_vars

\* the number of bits the groups hold
RECURSIVE TotalBits(_)
TotalBits(gs) == IF gs = <<>> THEN 0 ELSE Head(gs).len + TotalBits(Tail(gs))

\* bit j of the bits the groups wrote, each group least significant bit first
RECURSIVE WrittenBit(_, _)
WrittenBit(gs, j) ==
    IF j < Head(gs).len THEN (Head(gs).v \div Pow2(j)) % 2
    ELSE WrittenBit(Tail(gs), j - Head(gs).len)

BytesFor(k) == (k + 7) \div 8

\* C4: bit writer flush law.  After k > 0 bits written by write_bit and
\* write_bits calls and the drop of the writer, the file holds ceil(k/8)
\* bytes, bit j of the stream is bit j mod 8 of byte j div 8, and the bits
\* of the last byte above the last bit written are zero.
C4_FlushLaw ==
    LET k == TotalBits(log.groups) IN
    (pc = "reading" /\ k > 0) =>
        /\ Len(output.wd) = BytesFor(k)
        /\ \A j \in 0..(k - 1) :
              PayloadBit(output.wd, j) = WrittenBit(log.groups, j)
        /\ \A j \in k..(8 * BytesFor(k) - 1) : PayloadBit(output.wd, j) = 0

C4_Witness ==
    LET k == TotalBits(log.groups) IN
    /\ pc = "reading"
    /\ k > 8 /\ k % 8 # 0
    /\ Len(output.wd) = 2
    /\ output.wd[2] # 0
    /\ \E g \in 1..Len(log.groups) : log.groups[g].op = "bit"
    /\ \E g \in 1..Len(log.groups) : log.groups[g].op = "bits"

\* the run is one C5 speaks of: the group sizes sum to a multiple of 8 and
\* every value fits its group
AlignedInRange ==
    /\ TotalBits(log.groups) % 8 = 0
    /\ \A g \in 1..Len(log.groups) : log.groups[g].v < Pow2(log.groups[g].len)

\* C5: reader/writer duality.  Groups of 1..8 bits whose sizes sum to a
\* multiple of 8, each value below 2^len, written in order and read back
\* with the same sizes from the file the writer produced, come back as the
\* values written.
C5_Duality ==
    (pc = "reading" /\ AlignedInRange) =>
        \A g \in 1..Len(log.got) :
            log.got[g].ok /\ log.got[g].v = log.groups[g].v

C5_Witness ==
    /\ pc = "reading"
    /\ AlignedInRange
    /\ Len(log.groups) = 3
    /\ Len(log.got) = 3
    /\ TotalBits(log.groups) = 16
    /\ \A g \in 1..3 : log.groups[g].v \notin {0, Pow2(log.groups[g].len) - 1}

=============================================================================
